---- MODULE Spec2Model ----
(***************************************************************************)
(* A model of divide_scanned_photos.py: the Region Detector                *)
(* (get_photo_regions) and the Region Processor                            *)
(* (divide_crop_and_straighten), with the ImageMagick engine as a          *)
(* deterministic black box that may fail at any invocation.                *)
(*                                                                         *)
(* Text (the engine's report, paths, tokens) is a sequence of              *)
(* one-character strings, so that strip, split, int(), startswith,         *)
(* basename and the f-string of the output path are computed as the code   *)
(* computes them.                                                          *)
(***************************************************************************)
EXTENDS Integers, Sequences, FiniteSets, TLC

\* ------------------------------------------------------------------ bounds

\* Component lines in one engine report (after the header line).
MaxLines == 2

\* Runs of divide_crop_and_straighten over the same image and output dir.
MaxRuns == 2

\* ------------------------------------------------------------- text helpers

SP == " "

NL == "\n"

Digits == <<"0", "1", "2", "3", "4", "5", "6", "7", "8", "9">>

IsDigit(ch) == \E d \in 1..10 : Digits[d] = ch

DigitValue(ch) == (CHOOSE d \in 1..10 : Digits[d] = ch) - 1

IsSpace(ch) == ch = SP \/ ch = NL

\* str.split(sep) with a one-character separator: the pieces between
\* consecutive separators, so never empty, and two adjacent separators give
\* an empty token.
Split(s, sep) ==
  LET at == {i \in 1..Len(s) : s[i] = sep}
      n == Cardinality(at)
      pos(k) == IF k = 0 THEN 0
                ELSE IF k = n + 1 THEN Len(s) + 1
                ELSE CHOOSE i \in at : Cardinality({j \in at : j < i}) = k - 1
  IN  [k \in 1..(n + 1) |-> SubSeq(s, pos(k - 1) + 1, pos(k) - 1)]

\* str.strip(): leading and trailing whitespace removed.
Strip(s) ==
  LET keep == {i \in 1..Len(s) : ~IsSpace(s[i])}
      lo == CHOOSE i \in keep : \A j \in keep : i <= j
      hi == CHOOSE i \in keep : \A j \in keep : i >= j
  IN  IF keep = {} THEN <<>> ELSE SubSeq(s, lo, hi)

\* str.startswith(prefix)
StartsWith(s, prefix) ==
  Len(s) >= Len(prefix) /\ SubSeq(s, 1, Len(prefix)) = prefix

\* Whether int(tok) succeeds, for tokens of printable non-space characters
\* without a sign or an underscore (the tokens of the reports below).
IsInt(tok) == Len(tok) > 0 /\ \A i \in 1..Len(tok) : IsDigit(tok[i])

RECURSIVE IntOf(_)
\* int(tok) of a decimal token.
IntOf(tok) ==
  IF tok = <<>> THEN 0
  ELSE 10 * IntOf(SubSeq(tok, 1, Len(tok) - 1)) + DigitValue(tok[Len(tok)])

RECURSIVE Decimal(_)
\* str(n), as f"{counter}" formats a non-negative int.
Decimal(n) ==
  IF n < 10 THEN <<Digits[n + 1]>>
  ELSE Decimal(n \div 10) \o <<Digits[(n % 10) + 1]>>

Max(a, b) == IF a >= b THEN a ELSE b

\* The index of the last "/" of a path, 0 if it has none.
LastSlash(p) ==
  LET at == {i \in 1..Len(p) : p[i] = "/"}
  IN  IF at = {} THEN 0 ELSE CHOOSE i \in at : \A j \in at : i >= j

\* os.path.basename
Basename(p) == SubSeq(p, LastSlash(p) + 1, Len(p))

\* os.path.dirname (of a path whose only leading slash, if any, is its root)
Dirname(p) == IF LastSlash(p) <= 1 THEN SubSeq(p, 1, LastSlash(p))
              ELSE SubSeq(p, 1, LastSlash(p) - 1)

\* os.path.join(a, b) for a relative b
PathJoin(a, b) ==
  IF a = <<>> THEN b
  ELSE IF a[Len(a)] = "/" THEN a \o b
  ELSE a \o <<"/">> \o b

\* ---------------------------------------------------- program constants

\* FRACTION_OF_LARGEST_AREA = 0.1, as the ratio 1 / FRACTION_DENOMINATOR.
FRACTION_DENOMINATOR == 10

BLACK == <<"s", "r", "g", "b", "(", "0", ",", "0", ",", "0", ")">>

BLACK_ALPHA_PREFIX == <<"s", "r", "g", "b", "a", "(", "0", ",", "0", ",", "0">>

\* --------------------------------------------------------------- inputs

BlackAlpha == <<"s", "r", "g", "b", "a", "(", "0", ",", "0", ",", "0", ",", "1", ")">>

White == <<"s", "r", "g", "b", "(", "2", "5", "5", ",", "2", "5", "5", ",", "2", "5", "5", ")">>

\* The header line ImageMagick prints first.
Header == <<"O", "b", "j", "e", "c", "t", "s", " ", "(", "i", "d", ":", " ",
            "b", "o", "u", "n", "d", "i", "n", "g", "-", "b", "o", "x", " ",
            "c", "e", "n", "t", "r", "o", "i", "d", " ", "a", "r", "e", "a", " ",
            "m", "e", "a", "n", "-", "c", "o", "l", "o", "r", ")", ":">>

\* A report line as ImageMagick prints it: lead, then "id: geometry centroid
\* area colour" with single spaces.
ReportLine(lead, id, geometry, area, colour) ==
  lead \o id \o <<":", SP>> \o geometry \o <<SP, "4", ",", "4", SP>> \o area
       \o <<SP>> \o colour

\* "  0: 9x9+0+0 4,4 30 srgb(0,0,0)": the largest black component.
LineLarge ==
  ReportLine(<<SP, SP>>, <<"0">>, <<"9", "x", "9", "+", "0", "+", "0">>,
             <<"3", "0">>, BLACK)

\* "  1: 2x2+9+0 4,4 3 srgb(0,0,0)": a black component at exactly a tenth of
\* LineLarge's area.
LineTenth ==
  ReportLine(<<SP, SP>>, <<"1">>, <<"2", "x", "2", "+", "9", "+", "0">>,
             <<"3">>, BLACK)

\* "  2: 1x2+0+9 4,4 2 srgba(0,0,0,1)": an alpha-qualified black speck.
LineSpeck ==
  ReportLine(<<SP, SP>>, <<"2">>, <<"1", "x", "2", "+", "0", "+", "9">>,
             <<"2">>, BlackAlpha)

\* "  3: 5x5+1+1 4,4 40 srgb(255,255,255)": a white component larger than
\* every black one.
LineWhite ==
  ReportLine(<<SP, SP>>, <<"3">>, <<"5", "x", "5", "+", "1", "+", "1">>,
             <<"4", "0">>, White)

\* " 10: 3x3+4+4 4,4 30 srgb(0,0,0)": one leading space only, so 6 tokens.
LineShort ==
  ReportLine(<<SP>>, <<"1", "0">>, <<"3", "x", "3", "+", "4", "+", "4">>,
             <<"3", "0">>, BLACK)

\* "a b c 7x7+2+2 d  50 srgb(0,0,0)": seven words, with two spaces before
\* the area, so 8 tokens.
LineDoubleSpace ==
  <<"a", SP, "b", SP, "c", SP, "7", "x", "7", "+", "2", "+", "2", SP, "d", SP,
    SP, "5", "0", SP>> \o BLACK

\* "  4: 4x4+5+5 4,4 n/a srgb(0,0,0)": 7 tokens, the area not an integer.
LineBadArea ==
  ReportLine(<<SP, SP>>, <<"4">>, <<"4", "x", "4", "+", "5", "+", "5">>,
             <<"n", "/", "a">>, BLACK)

LineSet == {LineLarge, LineTenth, LineSpeck, LineWhite, LineShort,
            LineDoubleSpace, LineBadArea}

\* The reports the engine may print: up to MaxLines component lines.
LineSeqs == UNION {[1..n -> LineSet] : n \in 0..MaxLines}

RECURSIVE JoinLines(_)
JoinLines(lines) ==
  IF lines = <<>> THEN <<>> ELSE Head(lines) \o <<NL>> \o JoinLines(Tail(lines))

\* What the engine writes to standard output: the header and one line per
\* component, each ended by a newline.
EngineStdout(lines) == Header \o <<NL>> \o JoinLines(lines)

InputPaths == {<<"a", ".", "p", "n", "g">>, <<"s", "/", "a", ".", "p", "n", "g">>}

OutputDirArgs == {<<>>, <<"o">>}

\* The standard-error text of a failing invocation.
StderrTexts == {"convert: no such file", "convert: unable to open image"}

\* ---------------------------------------------------------- file system

\* A file's contents: how the engine derived it, and from which region.
EmptyFile == [op |-> "empty", region |-> <<>>]

BatchImage == [op |-> "batch", region |-> <<>>]

NoFiles == [p \in {} |-> EmptyFile]

Write(f, path, content) ==
  [p \in DOMAIN f \cup {path} |-> IF p = path THEN content ELSE f[p]]

Delete(f, path) == [p \in DOMAIN f \ {path} |-> f[p]]

\* The names tempfile.NamedTemporaryFile() gives the detector's and the
\* processor's temporary file.
TmpDetector == <<"/", "t", "m", "p", "/", "d">>

TmpProcessor == <<"/", "t", "m", "p", "/", "p">>

\* Entering "with tempfile.NamedTemporaryFile() as tmpfile": an empty file.
ScopeEnter(f, tmp) == Write(f, tmp, EmptyFile)

\* A temporary file that is not deleted (delete=False).
ScopeExit_Keep(f, tmp) == f

\* Leaving the with block, normally or by an exception: the file is deleted.
ScopeExit(f, tmp) == Delete(f, tmp)

\* ------------------------------------------------- the engine (black box)

\* convert IN -threshold 90% ... -connected-components 4 OUT
ConnectedComponentsImage(c) == [op |-> "cc(" \o c.op \o ")", region |-> c.region]

\* convert IN -crop REGION +repage OUT
CropImage(c, region) == [op |-> "crop(" \o c.op \o ")", region |-> region]

\* convert IN -deskew 40% -fuzz 10% -trim +repage OUT
DeskewTrimImage(c) == [op |-> "deskew_trim(" \o c.op \o ")", region |-> c.region]

ExitCodes == {0, 1}

\* ------------------------------------------------------------ run_command

\* The assert left out (as under python -O): a failed invocation goes unnoticed.
run_command_never_raises(returncode) == FALSE

\* assert process.returncode == 0
run_command_raises(returncode) == returncode # 0

\* The message without the captured standard error.
AssertionMessage_NoStderr(cmd, stderr) ==
  [kind |-> "AssertionError", cmd |-> cmd, stderr |-> ""]

\* f"Command: '{cmd}' failed with '{stderr}'."
AssertionMessage(cmd, stderr) ==
  [kind |-> "AssertionError", cmd |-> cmd, stderr |-> stderr]

NoError == [kind |-> "none", cmd |-> "", stderr |-> ""]

ValueError == [kind |-> "ValueError", cmd |-> "", stderr |-> ""]

\* The standard output run_command returns: stripped.  A failed invocation
\* prints no report.
run_command_stdout(returncode, lines) ==
  IF returncode = 0 THEN Strip(EngineStdout(lines)) ELSE <<>>

\* ------------------------------------------------------ get_photo_regions

\* run_command(cmd).split("\n")[1:]
StdoutLines(stdout) == Tail(Split(stdout, NL))

\* line.split(): runs of whitespace delimit, no empty tokens.
Tokens_Whitespace(line) == SelectSeq(Split(line, SP), LAMBDA t : t # <<>>)

\* line.split(" ")
Tokens(line) == Split(line, SP)

\* ConnectedComponent(tokens[3], int(tokens[5]), tokens[6])
ConnectedComponent(tokens) ==
  [region |-> tokens[4], area |-> IntOf(tokens[6]), mean_color |-> tokens[7]]

\* mean_color == "srgb(0,0,0)" or mean_color.startswith("srgba(0,0,0")
IsBlack(mean_color) ==
  mean_color = BLACK \/ StartsWith(mean_color, BLACK_ALPHA_PREFIX)

\* max_area = max(max_area, component.area)
NewMaxArea(max_area, area) == Max(max_area, area)

\* The comparison made strict.
IsLargeEnough_Strict(area, max_area) == area * FRACTION_DENOMINATOR > max_area

\* The fraction applied to the wrong side.
IsLargeEnough_Swapped(area, max_area) == area >= FRACTION_DENOMINATOR * max_area

\* component.area >= FRACTION_OF_LARGEST_AREA * max_area.  The product is a
\* double: 0.1 is 3602879701896397 / 2^55, so 0.1 * (10 * a) is
\* a * (1 + 2^-54), which rounds to a, and for integers below 2^53 the
\* comparison is that of the integers a * 10 >= max_area.
IsLargeEnough(area, max_area) == area * FRACTION_DENOMINATOR >= max_area

\* ------------------------------------------- divide_crop_and_straighten

\* A counter that is not reset.
StartCounter_Carry(previous) == previous

\* counter = 0, whatever an earlier run left.
StartCounter(previous) == 0

\* The increment left out.
NextCounter_Stuck(counter) == counter

\* counter += 1
NextCounter(counter) == counter + 1

\* Numbering from 1.
OutputPath_OneBased(output_dir, counter, input_filename) ==
  PathJoin(output_dir, Decimal(counter + 1) \o <<"_">> \o input_filename)

\* os.path.join(output_dir, f"{counter}_{input_filename}")
OutputPath(output_dir, counter, input_filename) ==
  PathJoin(output_dir, Decimal(counter) \o <<"_">> \o input_filename)

\* The crop written straight to the output path.
CropOutput_Direct(tmpfile, out) == out

\* The path crop_photo_region is told to write: tmpfile.name.
CropOutput(tmpfile, out) == tmpfile

\* The path straighen_image is told to read: tmpfile.name.
DeskewInput(tmpfile, out) == tmpfile

\* ---------------------------------------------------------------- state

VARIABLES
  input_path,           \* args.input
  output_dir_arg,       \* args.output_dir ("" when omitted)
  engine_lines,         \* the component lines the engine reports for the image
  pc,                   \* where the run is
  run,                  \* the number of the run
  fs,                   \* the files that exist: path -> contents
  created,              \* the temporary files this run created
  stdout_lines,         \* the report lines not yet parsed
  components,           \* get_photo_regions: components
  max_area,             \* get_photo_regions: max_area
  filter_pos,           \* the position of "for component in components"
  filtered_components,  \* get_photo_regions: filtered_components
  photo_regions,        \* divide_crop_and_straighten: photo_regions
  loop_pos,             \* the position of "for photo_region in photo_regions"
  counter,              \* divide_crop_and_straighten: counter
  calls,                \* the engine invocations of this run, in order
  printed,              \* what this run printed, in order
  written,              \* the output paths this run had the engine write
  error,                \* the exception that ended the run, if any
  first_outputs         \* the files left by the first completed run

vars == <<input_path, output_dir_arg, engine_lines, pc, run, fs, created,
          stdout_lines, components, max_area, filter_pos, filtered_components,
          photo_regions, loop_pos, counter, calls, printed, written, error,
          first_outputs>>

inputs == <<input_path, output_dir_arg, engine_lines>>

detector == <<stdout_lines, components, max_area, filter_pos,
              filtered_components>>

processor == <<photo_regions, loop_pos, counter, written>>

\* main: output_dir = args.output_dir if args.output_dir else input_dir
OutputDir ==
  IF output_dir_arg # <<>> THEN output_dir_arg ELSE Dirname(input_path)

\* The files other than the temporary ones.
Durable(f) == [p \in DOMAIN f \ {TmpDetector, TmpProcessor} |-> f[p]]

Call(op, region, read, rc, stderr) ==
  [op |-> op, region |-> region, read |-> read, rc |-> rc, stderr |-> stderr]

Init ==
  /\ input_path \in InputPaths
  /\ output_dir_arg \in OutputDirArgs
  /\ engine_lines \in LineSeqs
  /\ pc = "start"
  /\ run = 1
  /\ fs = Write(NoFiles, input_path, BatchImage)
  /\ created = {}
  /\ stdout_lines = <<>>
  /\ components = <<>>
  /\ max_area = 1
  /\ filter_pos = 1
  /\ filtered_components = <<>>
  /\ photo_regions = <<>>
  /\ loop_pos = 1
  /\ counter = 0
  /\ calls = <<>>
  /\ printed = <<>>
  /\ written = <<>>
  /\ error = NoError
  /\ first_outputs = NoFiles

\* -------------------------------------------------------------- actions

\* get_photo_regions, lines 67-69: the detector's temporary file is created.
EnterDetector ==
  /\ pc = "start"
  /\ pc' = "detect"
  /\ components' = <<>>
  /\ max_area' = 1
  /\ fs' = ScopeEnter(fs, TmpDetector)
  /\ created' = created \cup {TmpDetector}
  /\ UNCHANGED <<inputs, run, stdout_lines, filter_pos, filtered_components,
                 processor, calls, printed, error, first_outputs>>

\* Lines 70-75: the threshold and connected-components invocation, exiting
\* with returncode.  A failed invocation writes no file.
Detect(returncode, stderr) ==
  /\ pc = "detect"
  /\ calls' = Append(calls, Call("connected_components", <<>>, fs[input_path],
                                 returncode, stderr))
  /\ LET after == IF returncode = 0
                  THEN Write(fs, TmpDetector,
                             ConnectedComponentsImage(fs[input_path]))
                  ELSE fs
     IN  IF run_command_raises(returncode)
         THEN /\ pc' = "aborted"
              /\ error' = AssertionMessage("connected_components", stderr)
              /\ fs' = ScopeExit(after, TmpDetector)
              /\ UNCHANGED stdout_lines
         ELSE /\ pc' = "parse"
              /\ stdout_lines' =
                   StdoutLines(run_command_stdout(returncode, engine_lines))
              /\ fs' = after
              /\ UNCHANGED error
  /\ UNCHANGED <<inputs, run, created, components, max_area, filter_pos,
                 filtered_components, processor, printed, first_outputs>>

DetectOk == Detect(0, "")

DetectFail ==
  \E returncode \in ExitCodes \ {0}, stderr \in StderrTexts :
    Detect(returncode, stderr)

\* Lines 76-79: a line that does not split into 7 tokens is skipped.
SkipLine ==
  /\ pc = "parse"
  /\ stdout_lines # <<>>
  /\ Len(Tokens(Head(stdout_lines))) # 7
  /\ stdout_lines' = Tail(stdout_lines)
  /\ UNCHANGED <<inputs, pc, run, fs, created, components, max_area,
                 filter_pos, filtered_components, processor, calls, printed,
                 error, first_outputs>>

\* Lines 80-85: a line of 7 tokens becomes a component, kept when black.
ParseComponent ==
  /\ pc = "parse"
  /\ stdout_lines # <<>>
  /\ LET tokens == Tokens(Head(stdout_lines))
     IN  /\ Len(tokens) = 7
         /\ IsInt(tokens[6])
         /\ LET component == ConnectedComponent(tokens)
            IN  IF IsBlack(component.mean_color)
                THEN /\ max_area' = NewMaxArea(max_area, component.area)
                     /\ components' = Append(components, component)
                ELSE UNCHANGED <<max_area, components>>
  /\ stdout_lines' = Tail(stdout_lines)
  /\ UNCHANGED <<inputs, pc, run, fs, created, filter_pos,
                 filtered_components, processor, calls, printed, error,
                 first_outputs>>

\* Line 80: int(tokens[5]) raises ValueError; the with block is left.
ParseError ==
  /\ pc = "parse"
  /\ stdout_lines # <<>>
  /\ LET tokens == Tokens(Head(stdout_lines))
     IN  Len(tokens) = 7 /\ ~IsInt(tokens[6])
  /\ pc' = "aborted"
  /\ error' = ValueError
  /\ fs' = ScopeExit(fs, TmpDetector)
  /\ UNCHANGED <<inputs, run, created, detector, processor, calls, printed,
                 first_outputs>>

\* Lines 85-89: the lines are exhausted and the with block is left.
EndParse ==
  /\ pc = "parse"
  /\ stdout_lines = <<>>
  /\ pc' = "filter"
  /\ fs' = ScopeExit(fs, TmpDetector)
  /\ filtered_components' = <<>>
  /\ filter_pos' = 1
  /\ UNCHANGED <<inputs, run, created, stdout_lines, components, max_area,
                 processor, calls, printed, error, first_outputs>>

\* Lines 90-92: one iteration of the noise filter.
FilterComponent ==
  /\ pc = "filter"
  /\ filter_pos <= Len(components)
  /\ filtered_components' =
       IF IsLargeEnough(components[filter_pos].area, max_area)
       THEN Append(filtered_components, components[filter_pos])
       ELSE filtered_components
  /\ filter_pos' = filter_pos + 1
  /\ UNCHANGED <<inputs, pc, run, fs, created, stdout_lines, components,
                 max_area, processor, calls, printed, error, first_outputs>>

\* Lines 93-94 and 113: the count is printed and the regions are returned.
ReturnRegions ==
  /\ pc = "filter"
  /\ filter_pos > Len(components)
  /\ pc' = "returned"
  /\ printed' = Append(printed, [msg |-> "Found",
                                 n |-> Len(filtered_components), path |-> <<>>])
  /\ photo_regions' = filtered_components
  /\ UNCHANGED <<inputs, run, fs, created, detector, loop_pos, counter,
                 written, calls, error, first_outputs>>

\* Lines 114-116: the processor's scratch file is created, counter = 0.
EnterProcessor ==
  /\ pc = "returned"
  /\ pc' = "crop"
  /\ fs' = ScopeEnter(fs, TmpProcessor)
  /\ created' = created \cup {TmpProcessor}
  /\ counter' = StartCounter(counter)
  /\ loop_pos' = 1
  /\ UNCHANGED <<inputs, run, detector, photo_regions, written, calls,
                 printed, error, first_outputs>>

\* The output path of the current iteration (line 119).
output_path == OutputPath(OutputDir, counter, Basename(input_path))

\* Line 118: crop_photo_region, exiting with returncode.
Crop(returncode, stderr) ==
  /\ pc = "crop"
  /\ loop_pos <= Len(photo_regions)
  /\ LET region == photo_regions[loop_pos].region
         after == IF returncode = 0
                  THEN Write(fs, CropOutput(TmpProcessor, output_path),
                             CropImage(fs[input_path], region))
                  ELSE fs
     IN  /\ calls' = Append(calls, Call("crop", region, fs[input_path],
                                        returncode, stderr))
         /\ IF run_command_raises(returncode)
            THEN /\ pc' = "aborted"
                 /\ error' = AssertionMessage("crop", stderr)
                 /\ fs' = ScopeExit(after, TmpProcessor)
            ELSE /\ pc' = "deskew"
                 /\ fs' = after
                 /\ UNCHANGED error
  /\ UNCHANGED <<inputs, run, created, detector, processor, printed,
                 first_outputs>>

CropOk == Crop(0, "")

CropFail ==
  \E returncode \in ExitCodes \ {0}, stderr \in StderrTexts :
    Crop(returncode, stderr)

\* Lines 119-122: straighen_image, exiting with returncode; then the report
\* of the written path and counter += 1.
Deskew(returncode, stderr) ==
  /\ pc = "deskew"
  /\ LET region == photo_regions[loop_pos].region
         source == fs[DeskewInput(TmpProcessor, output_path)]
         after == IF returncode = 0
                  THEN Write(fs, output_path, DeskewTrimImage(source))
                  ELSE fs
     IN  /\ calls' = Append(calls, Call("deskew_trim", region, source,
                                        returncode, stderr))
         /\ written' = IF returncode = 0 THEN Append(written, output_path)
                       ELSE written
         /\ IF run_command_raises(returncode)
            THEN /\ pc' = "aborted"
                 /\ error' = AssertionMessage("deskew_trim", stderr)
                 /\ fs' = ScopeExit(after, TmpProcessor)
                 /\ UNCHANGED <<printed, counter, loop_pos>>
            ELSE /\ pc' = "crop"
                 /\ fs' = after
                 /\ printed' = Append(printed, [msg |-> "Wrote", n |-> counter,
                                                path |-> output_path])
                 /\ counter' = NextCounter(counter)
                 /\ loop_pos' = loop_pos + 1
                 /\ UNCHANGED error
  /\ UNCHANGED <<inputs, run, created, detector, photo_regions, first_outputs>>

DeskewOk == Deskew(0, "")

DeskewFail ==
  \E returncode \in ExitCodes \ {0}, stderr \in StderrTexts :
    Deskew(returncode, stderr)

\* Line 122 to the end of the with block: the loop is over, the scratch file
\* is deleted and the run returns.
ExitProcessor ==
  /\ pc = "crop"
  /\ loop_pos > Len(photo_regions)
  /\ pc' = "done"
  /\ fs' = ScopeExit(fs, TmpProcessor)
  /\ first_outputs' = IF run = 1 THEN Durable(fs') ELSE first_outputs
  /\ UNCHANGED <<inputs, run, created, detector, processor, calls, printed,
                 error>>

\* The tool is run again on the same image with the same output directory.
Rerun ==
  /\ pc = "done"
  /\ run < MaxRuns
  /\ run' = run + 1
  /\ pc' = "start"
  /\ created' = {}
  /\ stdout_lines' = <<>>
  /\ components' = <<>>
  /\ max_area' = 1
  /\ filter_pos' = 1
  /\ filtered_components' = <<>>
  /\ photo_regions' = <<>>
  /\ loop_pos' = 1
  /\ calls' = <<>>
  /\ printed' = <<>>
  /\ written' = <<>>
  /\ UNCHANGED <<inputs, fs, counter, error, first_outputs>>

Next ==
  \/ EnterDetector
  \/ DetectOk
  \/ DetectFail
  \/ SkipLine
  \/ ParseComponent
  \/ ParseError
  \/ EndParse
  \/ FilterComponent
  \/ ReturnRegions
  \/ EnterProcessor
  \/ CropOk
  \/ CropFail
  \/ DeskewOk
  \/ DeskewFail
  \/ ExitProcessor
  \/ Rerun

Spec == Init /\ [][Next]_vars

\* ------------------------------------- what the engine's report describes

\* The positions of the single spaces of a line.
SpacesAt(line) == {i \in 1..Len(line) : line[i] = SP}

\* The position of the k-th space of a line.
NthSpace(line, k) ==
  CHOOSE i \in SpacesAt(line) : Cardinality({j \in SpacesAt(line) : j < i}) = k - 1

\* The field that follows the k-th space, up to the next space or the end.
FieldAfter(line, k) ==
  LET last == IF k < Cardinality(SpacesAt(line)) THEN NthSpace(line, k + 1) - 1
              ELSE Len(line)
  IN  SubSeq(line, NthSpace(line, k) + 1, last)

\* A line of 7 fields delimited by single spaces (empty fields counted).
SevenFields(line) == Cardinality(SpacesAt(line)) = 6

AllDigits(f) == f # <<>> /\ \A i \in 1..Len(f) : f[i] \in {Digits[d] : d \in 1..10}

\* The number a decimal numeral denotes, -1 for any other text.
NumberOf(f) ==
  IF AllDigits(f) /\ \E n \in 0..99 : Decimal(n) = f
  THEN CHOOSE n \in 0..99 : Decimal(n) = f
  ELSE -1

\* A line that describes a component: 7 fields, the area a numeral.
Describes(line) == SevenFields(line) /\ AllDigits(FieldAfter(line, 5))

\* A line of 7 fields whose area field is no numeral.
BadArea(line) == SevenFields(line) /\ ~AllDigits(FieldAfter(line, 5))

DescribedComponent(line) ==
  [region |-> FieldAfter(line, 3), area |-> NumberOf(FieldAfter(line, 5)),
   mean_color |-> FieldAfter(line, 6)]

\* The components the report describes, in the order of its lines.
DescribedComponents ==
  LET good == SelectSeq(engine_lines, Describes)
  IN  [i \in 1..Len(good) |-> DescribedComponent(good[i])]

BlackColour(colour) ==
  \/ colour = BLACK
  \/ /\ Len(colour) >= Len(BLACK_ALPHA_PREFIX)
     /\ \A i \in 1..Len(BLACK_ALPHA_PREFIX) : colour[i] = BLACK_ALPHA_PREFIX[i]

HasBlackColour(component) == BlackColour(component.mean_color)

\* The black-mean-colour candidates of the report.
BlackCandidates == SelectSeq(DescribedComponents, HasBlackColour)

BlackAreas == {BlackCandidates[i].area : i \in 1..Len(BlackCandidates)}

\* The largest area among the black candidates, 1 if there are none.
MaxBlackArea ==
  IF BlackAreas = {} THEN 1
  ELSE CHOOSE m \in BlackAreas : \A a \in BlackAreas : m >= a

AtLeastTenth(component) == 10 * component.area >= MaxBlackArea

\* a is b with some elements left out, the others in b's order.
IsSubsequence(a, b) ==
  \E f \in [1..Len(a) -> 1..Len(b)] :
    /\ \A i \in 1..Len(a) : b[f[i]] = a[i]
    /\ \A i, j \in 1..Len(a) : i < j => f[i] < f[j]

\* The words of a line: its maximal runs of non-space characters.
WordStarts(line) ==
  {i \in 1..Len(line) : line[i] # SP /\ (i = 1 \/ line[i - 1] = SP)}

NthWord(line, k) ==
  LET start == CHOOSE i \in WordStarts(line) :
                 Cardinality({j \in WordStarts(line) : j < i}) = k - 1
      after == {j \in SpacesAt(line) : j > start}
      stop == IF after = {} THEN Len(line) + 1
              ELSE CHOOSE j \in after : \A x \in after : j <= x
  IN  SubSeq(line, start, stop - 1)

SevenWords(line) == Cardinality(WordStarts(line)) = 7

\* The components of the lines of exactly 7 whitespace-separated tokens.
WordComponents ==
  LET good == SelectSeq(engine_lines, SevenWords)
  IN  [i \in 1..Len(good) |->
         [region |-> NthWord(good[i], 4), area |-> NumberOf(NthWord(good[i], 6)),
          mean_color |-> NthWord(good[i], 7)]]

Count(seq, Test(_)) == Cardinality({i \in 1..Len(seq) : Test(seq[i])})

\* The output files: the durable files other than the input image.
OutputFiles == DOMAIN Durable(fs) \ {input_path}

Range(seq) == {seq[i] : i \in 1..Len(seq)}

IsCrop(call) == call.op = "crop"

IsDeskew(call) == call.op = "deskew_trim"

Succeeded(call) == call.rc = 0

SucceededDeskew(call) == IsDeskew(call) /\ Succeeded(call)

IsWrote(line) == line.msg = "Wrote"

\* The crop of region k of this run, deskewed and trimmed.
StraightenedCrop(k) ==
  DeskewTrimImage(CropImage(BatchImage, photo_regions[k].region))

\* ---------------------------------------------------------------- claims

\* C1: the regions get_photo_regions returns are at most as many as the
\* report's component lines, and are exactly the black-mean-colour
\* candidates whose area is at least a tenth of the largest black area
\* (1 if there is none), none dropped at or above it, none kept below it.
C1_FilterExact ==
  pc = "returned" =>
    /\ Len(photo_regions) <= Count(engine_lines, SevenFields)
    /\ photo_regions = SelectSeq(BlackCandidates, AtLeastTenth)

\* A report with a black candidate exactly at the threshold (kept) or below
\* it (dropped) beside the largest one.
C1_Witness ==
  /\ pc = "returned"
  /\ Len(BlackCandidates) = 2
  /\ MaxBlackArea = 30
  /\ photo_regions # <<>>

\* C10: when the report has a black candidate, the result is not empty and
\* holds every black candidate of the largest area; the result is empty only
\* when there is no black candidate.
C10_LargestKept ==
  pc = "returned" =>
    /\ BlackCandidates # <<>> =>
         /\ photo_regions # <<>>
         /\ \A i \in 1..Len(BlackCandidates) :
              BlackCandidates[i].area = MaxBlackArea =>
                Count(photo_regions, LAMBDA c : c = BlackCandidates[i])
                  = Count(BlackCandidates, LAMBDA c : c = BlackCandidates[i])
    /\ photo_regions = <<>> => BlackCandidates = <<>>

\* The largest candidate survives while a smaller one is dropped.
C10_Witness ==
  /\ pc = "returned"
  /\ Len(BlackCandidates) = 2
  /\ Len(photo_regions) = 1
  /\ photo_regions[1].area = MaxBlackArea

\* C9 as stated: the result is an order-preserving subsequence of the
\* components of the lines that have exactly 7 whitespace-separated tokens
\* (region token 3, area token 5, mean colour token 6).
C9_WhitespaceTokens ==
  pc = "returned" => IsSubsequence(photo_regions, WordComponents)

\* C9, amended: the header is discarded; every later line that splits at
\* single spaces into exactly 7 tokens (empty tokens counted) and whose
\* token 5 is a decimal integer yields one component; every line with another
\* token count is skipped without an error; a 7-token line whose token 5 is
\* no integer ends the run with a ValueError; the result is an
\* order-preserving subsequence of the components the lines describe.
C9_ParsedInOrder ==
  /\ pc \in {"filter", "returned"} =>
       /\ components = BlackCandidates
       /\ \A i \in 1..Len(engine_lines) : ~BadArea(engine_lines[i])
  /\ pc = "returned" => IsSubsequence(photo_regions, DescribedComponents)
  /\ error.kind = "ValueError" =>
       /\ pc = "aborted"
       /\ \E i \in 1..Len(engine_lines) : BadArea(engine_lines[i])

\* A line with another token count was skipped and the line after it gave
\* the region returned.
C9_Witness ==
  /\ pc = "returned"
  /\ Len(engine_lines) = 2
  /\ ~SevenFields(engine_lines[1])
  /\ Len(photo_regions) = 1

\* C2 as stated: when a run has ended, completed or aborted, the number of
\* output files it wrote equals the number of regions the detector returned.
C2_CountAtEveryEnd ==
  pc \in {"done", "aborted"} => Len(written) = Len(photo_regions)

\* C2, amended: a run that completes has had one output file written per
\* region the detector returned, under as many names, and a run never writes
\* more; with no region there is no crop or deskew invocation and no output
\* file.
C2_OutputCount ==
  /\ pc = "done" =>
       /\ Len(written) = Len(photo_regions)
       /\ Cardinality(Range(written)) = Len(photo_regions)
       /\ Cardinality(OutputFiles) = Len(photo_regions)
  /\ Len(written) <= Len(photo_regions)
  /\ (pc \in {"crop", "deskew", "done", "aborted"} /\ photo_regions = <<>>) =>
       /\ Count(calls, IsCrop) = 0
       /\ Count(calls, IsDeskew) = 0
       /\ written = <<>>

\* A completed run over two regions.
C2_Witness == pc = "done" /\ Len(photo_regions) = 2 /\ Len(calls) = 5

\* The text before the first "_" of a file name, and the text after it.
IndexPrefix(name) ==
  SubSeq(name, 1, (CHOOSE i \in 1..Len(name) :
                     name[i] = "_" /\ \A j \in 1..(i - 1) : name[j] # "_") - 1)

AfterPrefix(name) == SubSeq(name, Len(IndexPrefix(name)) + 2, Len(name))

\* C3: at every point of a run the k files written so far are, in order,
\* {i}_{basename} for i = 0..k-1 in the output directory, file i the deskewed
\* crop of the i-th region returned; a completed run has written all N, and
\* the output directory holds exactly these names.
C3_NamesInOrder ==
  /\ Len(written) <= Len(photo_regions)
  /\ \A k \in 1..Len(written) :
       LET name == Basename(written[k])
       IN  /\ \E i \in 1..Len(name) : name[i] = "_"
           /\ NumberOf(IndexPrefix(name)) = k - 1
           /\ AfterPrefix(name) = Basename(input_path)
           /\ written[k] = PathJoin(OutputDir, name)
           /\ fs[written[k]] = StraightenedCrop(k)
  /\ pc = "done" =>
       /\ Len(written) = Len(photo_regions)
       /\ OutputFiles = Range(written)

\* Midway through a run over two different regions: file 0 written, file 1
\* not yet.
C3_Witness ==
  /\ pc = "deskew"
  /\ run = 1
  /\ Len(written) = 1
  /\ Len(photo_regions) = 2
  /\ photo_regions[1] # photo_regions[2]

\* C4 as stated: a run ended by a failed engine invocation carries the
\* captured standard-error text and has written no output file.
C4_NoOutputOnFailure ==
  (pc = "aborted" /\ error.kind = "AssertionError") =>
    /\ error.stderr = calls[Len(calls)].stderr
    /\ written = <<>>

\* C4, amended: a run ended by a failed engine invocation carries that
\* invocation's standard-error text; it has written the output files of the
\* regions before the one being processed and no other; in particular none
\* when the detector's invocation failed.
C4_PartialOutputOnFailure ==
  (pc = "aborted" /\ error.kind = "AssertionError") =>
    LET failed == calls[Len(calls)]
    IN  /\ failed.rc # 0
        /\ error.stderr = failed.stderr
        /\ error.cmd = failed.op
        /\ Len(written) = Count(calls, SucceededDeskew)
        /\ failed.op = "connected_components" => written = <<>>
        /\ failed.op # "connected_components" =>
             /\ Len(written) = loop_pos - 1
             /\ \A k \in 1..Len(written) : fs[written[k]] = StraightenedCrop(k)
             /\ \A k \in loop_pos..Len(photo_regions) :
                  OutputPath(OutputDir, k - 1, Basename(input_path))
                    \notin Range(written)

\* The crop of the second region failed after the first region's file was
\* written.
C4_Witness ==
  /\ pc = "aborted"
  /\ calls[Len(calls)].op = "crop"
  /\ error.stderr = "convert: no such file"
  /\ Len(written) = 1

\* C5: a temporary file exists only inside its with block, and when a run
\* has ended, completed or aborted at any step, no temporary file it created
\* exists.
C5_TempFilesDeleted ==
  /\ pc \in {"done", "aborted"} => created \cap DOMAIN fs = {}
  /\ TmpDetector \in DOMAIN fs => pc \in {"detect", "parse"}
  /\ TmpProcessor \in DOMAIN fs => pc \in {"crop", "deskew"}
  /\ pc \in {"detect", "parse"} => TmpDetector \in created \cap DOMAIN fs
  /\ pc \in {"crop", "deskew"} => TmpProcessor \in created \cap DOMAIN fs

\* A run aborted by a failed deskew, after both temporary files were created.
C5_Witness ==
  /\ pc = "aborted"
  /\ created = {TmpDetector, TmpProcessor}
  /\ calls[Len(calls)].op = "deskew_trim"

\* C6: once a first run has completed, a further run with the same image and
\* output directory leaves the output directory as the first run left it
\* (same names, same contents) at every step, and the existing output files
\* do not stop a deskew+trim invocation from succeeding.
C6_RerunIdempotent ==
  run >= 2 =>
    /\ Durable(fs) = first_outputs
    /\ pc = "deskew" =>
         /\ output_path \in DOMAIN fs
         /\ ENABLED DeskewOk

\* A second run that completed over at least one region.
C6_Witness == run = 2 /\ pc = "done" /\ Len(written) >= 1

\* C7: only the last engine invocation of a run can have failed, and the run
\* is then aborted; a "Wrote image" line is printed for exactly the regions
\* whose deskew+trim succeeded, in order.
C7_AbortOnFirstFailure ==
  /\ \A i \in 1..Len(calls) :
       calls[i].rc # 0 => (i = Len(calls) /\ pc = "aborted")
  /\ Count(printed, IsWrote) = Count(calls, SucceededDeskew)
  /\ \A i \in 1..Len(printed) :
       IsWrote(printed[i]) => printed[i].n = i - 2 /\ printed[i].n < loop_pos - 1

\* The crop of the second region failed: nothing follows it.
C7_Witness ==
  /\ pc = "aborted"
  /\ Len(calls) = 4
  /\ calls[4].op = "crop"
  /\ calls[4].rc # 0
  /\ Count(printed, IsWrote) = 1

\* C8: the invocations of a run are the detector's, then crop and
\* deskew+trim alternating, region by region; every deskew+trim reads the
\* crop of its own region, written by the crop just before it.
C8_ScratchOverwritten ==
  /\ \A k \in 1..Len(calls) :
       /\ k = 1 => calls[k].op = "connected_components"
       /\ (k > 1 /\ k % 2 = 0) =>
            IsCrop(calls[k]) /\ calls[k].region = photo_regions[k \div 2].region
       /\ (k > 1 /\ k % 2 = 1) =>
            /\ IsDeskew(calls[k])
            /\ Succeeded(calls[k - 1])
            /\ calls[k].region = photo_regions[k \div 2].region
            /\ calls[k].read = CropImage(BatchImage, calls[k].region)
  /\ pc = "deskew" =>
       fs[TmpProcessor] = CropImage(BatchImage, photo_regions[loop_pos].region)

\* The deskew+trim of a second region, different from the first, has run.
C8_Witness ==
  /\ Len(calls) = 5
  /\ calls[5].rc = 0
  /\ photo_regions[1].region # photo_regions[2].region

====
